---- MODULE Spec2Model ----
(***************************************************************************)
(* hammerclock: the message-driven reducer (Update and its handlers), the  *)
(* run loop of cmd/hammerclock/main.go that feeds it, and the goroutines   *)
(* around it.                                                              *)
(*                                                                         *)
(* Go indexes players and phases from 0; sequences here start at 1, so     *)
(* "player 0" is Players[1].  CurrentPhase and Options.Default keep their  *)
(* 0-based values, and a list is read at index + 1.  Durations are whole   *)
(* seconds.                                                                *)
(***************************************************************************)
EXTENDS Integers, Sequences, FiniteSets, Bags, TLC

\* ------------------------------------------------------------------ bounds
\* Ticks are taken while TotalGameTime stays within MaxTime seconds, and a
\* message is reduced while every ActionLog stays within MaxLog entries (each
\* new turn logs at least one entry, so MaxLog bounds TurnCount as well).
MaxTime == 2
MaxLog == 4
\* The run loop is explored for MaxInputs ticks and UI events.
MaxInputs == 4
\* The scripted session takes up to MaxTicks ticks.
MaxTicks == 5
\* The caller of SendLogEntry submits up to MaxSubmits entries, one more than
\* the channel holds.
MaxSubmits == 101
\* main calls Cleanup on the first MaxCycles channels made by Initialise.
MaxCycles == 2
\* With a failing log file the caller of SendLogEntry submits MaxFaultSubmits
\* entries and up to MaxFaults calls of writeLogEntry fail.
MaxFaultSubmits == 3
MaxFaults == 1
\* The options screen sets player counts and player name indexes up to
\* MaxCount.
MaxCount == 3

\* --------------------------------------------------------------- constants
gameNotStarted == "Game Not Started"
gameInProgress == "Game In Progress"
gamePaused == "Game Paused"

\* The ruleset table of the loaded options: one ruleset of three phases, one
\* of two, and one without phases (as chessRules).
Rules ==
    << [Name |-> "Three", Phases |-> <<"A", "B", "C">>],
       [Name |-> "Two", Phases |-> <<"A", "B">>],
       [Name |-> "Chess", Phases |-> << >>] >>

Screens == {"main", "options", "about"}

\* the values of Options.PlayerCount explored; the default is 2
PlayerCounts == {1, 2, 3}

\* ---------------------------------------------------------------- messages
NoMsg == [type |-> "nil"]
StartGameMsg == [type |-> "StartGameMsg"]
EndGameMsg == [type |-> "EndGameMsg"]
EndGameConfirmMsg(c) == [type |-> "EndGameConfirmMsg", Confirmed |-> c]
ShowEndGameConfirmMsg == [type |-> "ShowEndGameConfirmMsg"]
ShowModalMsg(t) == [type |-> "ShowModalMsg", Type |-> t]
RestoreMainUIMsg == [type |-> "RestoreMainUIMsg"]
SwitchTurnsMsg == [type |-> "SwitchTurnsMsg"]
NextPhaseMsg == [type |-> "NextPhaseMsg"]
PrevPhaseMsg == [type |-> "PrevPhaseMsg"]
ShowOptionsMsg == [type |-> "ShowOptionsMsg"]
ShowAboutMsg == [type |-> "ShowAboutMsg"]
ShowMainScreenMsg == [type |-> "ShowMainScreenMsg"]
TickMsg == [type |-> "TickMsg"]
KeyPressMsg(k, r) == [type |-> "KeyPressMsg", Key |-> k, Rune |-> r]
SetRulesetMsg(i) == [type |-> "SetRulesetMsg", Index |-> i]
SetPlayerCountMsg(c) == [type |-> "SetPlayerCountMsg", Count |-> c]
SetPlayerNameMsg(i, name) == [type |-> "SetPlayerNameMsg", Index |-> i, Name |-> name]
SetEnableLogMsg(v) == [type |-> "SetEnableLogMsg", Value |-> v]

\* The Message text of a LogEntry: the format string and its arguments
\* (n for %d, s for %s; -1 and "" when the format has none).
Text(f) == [fmt |-> f, n |-> -1, s |-> ""]
TextN(f, k) == [fmt |-> f, n |-> k, s |-> ""]
TextS(f, str) == [fmt |-> f, n |-> -1, s |-> str]
TextNS(f, k, str) == [fmt |-> f, n |-> k, s |-> str]

\* A Command is a func() Message; it is represented by the message it yields.
noCommand == NoMsg

VARIABLES
    model,      \* the model variable of main: the state of record
    \* --- the goroutines of main and what they share
    done,       \* the done channel is closed
    tk,         \* the ticker goroutine: its place in the loop
    cs,         \* the consumer loop: its place, the message received, the
                \* result of Update
    ui,         \* the goroutine of App.Run: its place, the messages its
                \* handler still has to send, the queued function it runs
    updates,    \* the functions queued with QueueUpdateDraw, oldest first
    cmds,       \* the goroutines started for Commands (a bag)
    modal,      \* the end-game confirmation modal is the root of the view
    reducing,   \* the number of calls of Update in progress
    accepted,   \* the messages handed over by msgChan, in order
    reduced,    \* the messages passed to Update, in order
    inputs,     \* the number of ticks and UI events so far
    logger      \* package logging: its variables, the drain goroutine, the
                \* log file, and the callers of its functions

runtime == <<done, tk, cs, ui, updates, cmds, modal, reducing, accepted, reduced, inputs>>
vars == <<model, runtime, logger>>

\* ------------------------------------------------------------------- heap
\* Model.Players is a []*Player: the handlers work on a heap of Player
\* objects.  While Update runs, st is
\*   heap  : the Player objects, addressed by their index in this sequence
\*   model : newModel, whose Players field holds addresses
\*   sent  : the log entries handed to SendLogEntry, in order
\*   cmd   : the Command to return
\*   panicked : an index was out of range; the handler did not return
\* The parameter `model` of a handler is a shallow copy of the caller's model:
\* its Players slice holds the same addresses.

\* Player{...} of main.go
NewPlayer(i) ==
    [TimeElapsed |-> 0, IsTurn |-> (i = 1), CurrentPhase |-> 0, TurnCount |-> 0,
     ActionLog |-> << >>]

\* The caller's model laid out in memory: player i lives at address i.
Load(m) ==
    [heap |-> m.Players,
     model |-> [m EXCEPT !.Players = [i \in 1..Len(m.Players) |-> i]],
     sent |-> << >>,
     cmd |-> noCommand,
     panicked |-> FALSE]

\* A model with its Players read through the heap.
Deref(heap, m) == [m EXCEPT !.Players = [i \in 1..Len(m.Players) |-> heap[m.Players[i]]]]

AddLogEntry(st, player, text) ==
    LET p == st.heap[player]
        phases == Rules[st.model.Options.Default + 1].Phases
        currentPhase == IF p.CurrentPhase < Len(phases) /\ p.CurrentPhase >= 0
                        THEN phases[p.CurrentPhase + 1] ELSE ""
        logEntry == [Turn |-> p.TurnCount, Phase |-> currentPhase, Message |-> text]
    IN [st EXCEPT !.heap[player].ActionLog = Append(@, logEntry),
                  !.sent = Append(@, logEntry)]

\* for i, player := range model.Players {
\*     if player.IsTurn { AddLogEntry(newModel.Players[i], &newModel, text) } }
RECURSIVE LogActivePlayers(_, _, _, _)
LogActivePlayers(st, m, i, text) ==
    IF i > Len(m.Players) THEN st
    ELSE LogActivePlayers(
            IF st.heap[m.Players[i]].IsTurn
            THEN AddLogEntry(st, st.model.Players[i], text) ELSE st,
            m, i + 1, text)

\* handleStartGame without its pause branch
handleStartGame_NoPause(st) ==
    LET m == st.model IN
    IF m.GameStatus = gamePaused
    THEN LogActivePlayers([st EXCEPT !.model.GameStatus = gameInProgress],
                          m, 1, Text("Game resumed"))
    ELSE LogActivePlayers([st EXCEPT !.model.GameStatus = gameInProgress,
                                     !.model.GameStarted = TRUE],
                          m, 1, Text("Game started"))

handleStartGame(st) ==
    LET m == st.model IN
    IF m.GameStatus = gamePaused
    THEN LogActivePlayers([st EXCEPT !.model.GameStatus = gameInProgress],
                          m, 1, Text("Game resumed"))
    ELSE IF m.GameStatus = gameInProgress
    THEN LogActivePlayers([st EXCEPT !.model.GameStatus = gamePaused],
                          m, 1, Text("Game paused"))
    ELSE LogActivePlayers([st EXCEPT !.model.GameStatus = gameInProgress,
                                     !.model.GameStarted = TRUE],
                          m, 1, Text("Game started"))

\* the loop of handleEndGame leaving IsTurn as it is
RECURSIVE EndGameLoop_KeepTurn(_, _)
EndGameLoop_KeepTurn(st, i) ==
    IF i > Len(st.model.Players) THEN st
    ELSE LET a == st.model.Players[i]
             reset == [st EXCEPT !.heap[a].TimeElapsed = 0,
                                 !.heap[a].TurnCount = 0,
                                 !.heap[a].CurrentPhase = 0,
                                 !.heap[a].ActionLog = << >>]
         IN EndGameLoop_KeepTurn(
                AddLogEntry(reset, a,
                    IF i = 1 THEN Text("Game ended - reset to initial state")
                             ELSE Text("Game ended")),
                i + 1)

\* the loop of handleEndGame: newModel.Players[i] is the caller's object
RECURSIVE EndGameLoop(_, _)
EndGameLoop(st, i) ==
    IF i > Len(st.model.Players) THEN st
    ELSE LET a == st.model.Players[i]
             reset == [st EXCEPT !.heap[a].TimeElapsed = 0,
                                 !.heap[a].TurnCount = 0,
                                 !.heap[a].CurrentPhase = 0,
                                 !.heap[a].ActionLog = << >>,
                                 !.heap[a].IsTurn = (i = 1)]
         IN EndGameLoop(
                AddLogEntry(reset, a,
                    IF i = 1 THEN Text("Game ended - reset to initial state")
                             ELSE Text("Game ended")),
                i + 1)

\* handleEndGame leaving TotalGameTime as it is
handleEndGame_KeepsTime(st) ==
    IF st.model.GameStarted
    THEN EndGameLoop([st EXCEPT !.model.GameStatus = gameNotStarted,
                                !.model.GameStarted = FALSE], 1)
    ELSE st

handleEndGame(st) ==
    IF st.model.GameStarted
    THEN EndGameLoop([st EXCEPT !.model.GameStatus = gameNotStarted,
                                !.model.GameStarted = FALSE,
                                !.model.TotalGameTime = 0], 1)
    ELSE st

\* handleEndGameConfirm ending the game whatever the answer
handleEndGameConfirm_Always(m, st) == [handleEndGame(st) EXCEPT !.cmd = ShowMainScreenMsg]

handleEndGameConfirm(m, st) ==
    IF m.Confirmed
    THEN [handleEndGame(st) EXCEPT !.cmd = ShowMainScreenMsg]
    ELSE [st EXCEPT !.cmd = ShowMainScreenMsg]

\* handleShowEndGameConfirm ending the game itself
handleShowEndGameConfirm_Resets(st) == handleEndGame(st)

handleShowEndGameConfirm(st) == [st EXCEPT !.cmd = ShowModalMsg("EndGameConfirm")]

\* the loop of handleSwitchTurns counting the turns down
RECURSIVE SwitchTurnsLoop_CountDown(_, _, _, _)
SwitchTurnsLoop_CountDown(st, m, i, newPlayers) ==
    IF i > Len(m.Players) THEN [st EXCEPT !.model.Players = newPlayers]
    ELSE LET player == st.heap[m.Players[i]]
             a == Len(st.heap) + 1
             copied == [st EXCEPT !.heap = Append(@, player)]
             flipped == [copied EXCEPT !.heap[a].IsTurn = ~player.IsTurn]
             begun == [flipped EXCEPT !.heap[a].TurnCount = @ - 1,
                                      !.heap[a].CurrentPhase = 0]
         IN SwitchTurnsLoop_CountDown(IF flipped.heap[a].IsTurn THEN begun ELSE flipped,
                                      m, i + 1, Append(newPlayers, a))

\* the loop of handleSwitchTurns: newPlayer := *player; newPlayers[i] = &newPlayer
RECURSIVE SwitchTurnsLoop(_, _, _, _)
SwitchTurnsLoop(st, m, i, newPlayers) ==
    IF i > Len(m.Players) THEN [st EXCEPT !.model.Players = newPlayers]
    ELSE LET player == st.heap[m.Players[i]]
             a == Len(st.heap) + 1
             copied == [st EXCEPT !.heap = Append(@, player)]
             ended == IF player.IsTurn
                      THEN AddLogEntry(copied, a, TextN("Turn %d ended", player.TurnCount))
                      ELSE copied
             flipped == [ended EXCEPT !.heap[a].IsTurn = ~player.IsTurn]
             begun == [flipped EXCEPT !.heap[a].TurnCount = @ + 1,
                                      !.heap[a].CurrentPhase = 0]
             started == AddLogEntry(begun, a,
                            TextN("Turn %d started", begun.heap[a].TurnCount))
             entered == IF Len(m.Phases) > 0
                        THEN AddLogEntry(started, a,
                                TextNS("Turn %d - Entered phase: %s",
                                       started.heap[a].TurnCount, m.Phases[1]))
                        ELSE started
         IN SwitchTurnsLoop(IF flipped.heap[a].IsTurn THEN entered ELSE flipped,
                            m, i + 1, Append(newPlayers, a))

\* the handler leaving CurrentScreen as it is
BackToMain_Stays(st, m) == st

\* if model.CurrentScreen != "main" { newModel.CurrentScreen = "main" }
BackToMain(st, m) ==
    IF m.CurrentScreen # "main" THEN [st EXCEPT !.model.CurrentScreen = "main"] ELSE st

handleSwitchTurns(st) ==
    BackToMain(SwitchTurnsLoop(st, st.model, 1, << >>), st.model)

\* the loop of the phase handlers wrapping around at both ends
RECURSIVE PhaseLoop_Wrap(_, _, _, _, _)
PhaseLoop_Wrap(st, m, i, newPlayers, d) ==
    IF i > Len(m.Players) THEN [st EXCEPT !.model.Players = newPlayers]
    ELSE LET player == st.heap[m.Players[i]]
             a == Len(st.heap) + 1
             copied == [st EXCEPT !.heap = Append(@, player)]
             moves == player.IsTurn /\ Len(m.Phases) > 0
             moved == [copied EXCEPT !.heap[a].CurrentPhase =
                                        (player.CurrentPhase + d) % Len(m.Phases)]
         IN PhaseLoop_Wrap(IF moves THEN moved ELSE copied, m, i + 1,
                           Append(newPlayers, a), d)

\* the loop of handleNextPhase (d = 1) and of handlePrevPhase (d = -1)
RECURSIVE PhaseLoop(_, _, _, _, _)
PhaseLoop(st, m, i, newPlayers, d) ==
    IF i > Len(m.Players) THEN [st EXCEPT !.model.Players = newPlayers]
    ELSE LET player == st.heap[m.Players[i]]
             a == Len(st.heap) + 1
             copied == [st EXCEPT !.heap = Append(@, player)]
             moves == IF d = 1
                      THEN player.IsTurn /\ player.CurrentPhase < Len(m.Phases) - 1
                      ELSE player.IsTurn /\ player.CurrentPhase > 0
             moved == [copied EXCEPT !.heap[a].CurrentPhase = player.CurrentPhase + d]
             \* model.Phases[newPlayers[i].CurrentPhase]
             inRange == moved.heap[a].CurrentPhase + 1 \in 1..Len(m.Phases)
             logged == AddLogEntry(moved, a,
                          TextS("Started phase: %s", m.Phases[moved.heap[a].CurrentPhase + 1]))
         IN IF moves /\ ~inRange THEN [moved EXCEPT !.panicked = TRUE]
            ELSE PhaseLoop(IF moves THEN logged ELSE copied, m, i + 1,
                           Append(newPlayers, a), d)

\* what follows the loop of a handler, unless the loop panicked
AfterLoop(looped, m) == IF looped.panicked THEN looped ELSE BackToMain(looped, m)

handleNextPhase(st) == AfterLoop(PhaseLoop(st, st.model, 1, << >>, 1), st.model)

handlePrevPhase(st) == AfterLoop(PhaseLoop(st, st.model, 1, << >>, -1), st.model)

\* handleShowOptions without the toggle
handleShowOptions_Always(st) == [st EXCEPT !.model.CurrentScreen = "options"]

handleShowOptions(st) ==
    [st EXCEPT !.model.CurrentScreen = IF @ = "options" THEN "main" ELSE "options"]

handleShowAbout(st) ==
    [st EXCEPT !.model.CurrentScreen = IF @ = "about" THEN "main" ELSE "about"]

handleShowMainScreen(st) ==
    [st EXCEPT !.model.CurrentScreen = "main", !.cmd = RestoreMainUIMsg]

\* the loop of handleTick adding the second to the first player
RECURSIVE TickLoop_FirstPlayer(_, _, _, _)
TickLoop_FirstPlayer(st, m, i, newPlayers) ==
    IF i > Len(m.Players) THEN [st EXCEPT !.model.Players = newPlayers]
    ELSE LET a == Len(st.heap) + 1
             copied == [st EXCEPT !.heap = Append(@, st.heap[m.Players[i]])]
         IN TickLoop_FirstPlayer(IF i = 1
                                 THEN [copied EXCEPT !.heap[a].TimeElapsed = @ + 1]
                                 ELSE copied,
                                 m, i + 1, Append(newPlayers, a))

\* the loop of handleTick
RECURSIVE TickLoop(_, _, _, _)
TickLoop(st, m, i, newPlayers) ==
    IF i > Len(m.Players) THEN [st EXCEPT !.model.Players = newPlayers]
    ELSE LET player == st.heap[m.Players[i]]
             a == Len(st.heap) + 1
             copied == [st EXCEPT !.heap = Append(@, player)]
         IN TickLoop(IF player.IsTurn
                     THEN [copied EXCEPT !.heap[a].TimeElapsed = @ + 1]
                     ELSE copied,
                     m, i + 1, Append(newPlayers, a))

\* handleTick without the check of the game status
handleTick_Always(st) ==
    TickLoop([st EXCEPT !.model.TotalGameTime = @ + 1], st.model, 1, << >>)

handleTick(st) ==
    IF st.model.GameStarted /\ st.model.GameStatus = gameInProgress
    THEN TickLoop([st EXCEPT !.model.TotalGameTime = @ + 1], st.model, 1, << >>)
    ELSE st

\* handleKeyPress with the e key ending the game at once
handleKeyPress_EndsGame(m, st) ==
    IF m.Key = "KeyRune" /\ m.Rune \in {"e", "E"} THEN handleEndGame(st) ELSE st

\* handleKeyPress taking the lower-case runes only
handleKeyPress_LowerOnly(m, st) ==
    IF m.Key = "KeyRune"
    THEN CASE m.Rune = "o" -> handleShowOptions(st)
           [] m.Rune = "a" -> handleShowAbout(st)
           [] m.Rune = "s" -> handleStartGame(st)
           [] m.Rune = "e" ->
                IF st.model.GameStarted
                THEN [st EXCEPT !.cmd = ShowEndGameConfirmMsg] ELSE st
           [] m.Rune = "p" -> handleNextPhase(st)
           [] m.Rune = "b" -> handlePrevPhase(st)
           [] m.Rune = " " -> handleSwitchTurns(st)
           [] OTHER -> st
    ELSE st

handleKeyPress(m, st) ==
    IF m.Key \in {"KeyEscape", "KeyCtrlC"} THEN st
    ELSE IF m.Key = "KeyRune"
    THEN CASE m.Rune \in {"o", "O"} -> handleShowOptions(st)
           [] m.Rune \in {"a", "A"} -> handleShowAbout(st)
           [] m.Rune \in {"s", "S"} -> handleStartGame(st)
           [] m.Rune \in {"e", "E"} ->
                IF st.model.GameStarted
                THEN [st EXCEPT !.cmd = ShowEndGameConfirmMsg] ELSE st
           [] m.Rune \in {"p", "P"} -> handleNextPhase(st)
           [] m.Rune \in {"b", "B"} -> handlePrevPhase(st)
           [] m.Rune \in {"q", "Q"} -> st
           [] m.Rune = " " -> handleSwitchTurns(st)
           [] OTHER -> st
    ELSE st

\* newModel.Options.Default = msg.Index
\* newModel.Phases = model.Options.Rules[msg.Index].Phases
handleSetRuleset(m, st) ==
    IF m.Index + 1 \in 1..Len(Rules)
    THEN [st EXCEPT !.model.Options.Default = m.Index,
                    !.model.Phases = Rules[m.Index + 1].Phases]
    ELSE [st EXCEPT !.panicked = TRUE]

\* handleSetPlayerCount storing any count
handleSetPlayerCount_NoCheck(m, st) ==
    [st EXCEPT !.model.Options.PlayerCount = m.Count]

\* a count <= 0 is ignored; else Options.PlayerCount = msg.Count, and
\* Options.PlayerNames is padded with empty names up to msg.Count
handleSetPlayerCount(m, st) ==
    LET names == st.model.Options.PlayerNames IN
    IF m.Count <= 0 THEN st
    ELSE [st EXCEPT !.model.Options.PlayerCount = m.Count,
                    !.model.Options.PlayerNames =
                        IF Len(names) < m.Count
                            THEN names \o [i \in 1..(m.Count - Len(names)) |-> ""]
                            ELSE names]

\* an index outside Options.PlayerNames is ignored; else the name is written
\* into a copy of the slice
handleSetPlayerName(m, st) ==
    IF m.Index < 0 \/ m.Index >= Len(st.model.Options.PlayerNames) THEN st
    ELSE [st EXCEPT !.model.Options.PlayerNames[m.Index + 1] = m.Name]

\* case *common.SetEnableLogMsg: newModel.Options.LoggingEnabled = msg.Value
handleSetEnableLog(m, st) ==
    [st EXCEPT !.model.Options.LoggingEnabled = m.Value]

\* Update taking every message for a StartGameMsg
UpdateHeap_DefaultStarts(m, st) == handleStartGame(st)

\* Update on the heap: the type switch
UpdateHeap(m, st) ==
    CASE m.type = "StartGameMsg" -> handleStartGame(st)
      [] m.type = "EndGameMsg" -> handleEndGame(st)
      [] m.type = "EndGameConfirmMsg" -> handleEndGameConfirm(m, st)
      [] m.type = "ShowEndGameConfirmMsg" -> handleShowEndGameConfirm(st)
      [] m.type = "SwitchTurnsMsg" -> handleSwitchTurns(st)
      [] m.type = "NextPhaseMsg" -> handleNextPhase(st)
      [] m.type = "PrevPhaseMsg" -> handlePrevPhase(st)
      [] m.type = "ShowOptionsMsg" -> handleShowOptions(st)
      [] m.type = "ShowAboutMsg" -> handleShowAbout(st)
      [] m.type = "ShowMainScreenMsg" -> handleShowMainScreen(st)
      [] m.type = "RestoreMainUIMsg" -> st
      [] m.type = "TickMsg" -> handleTick(st)
      [] m.type = "KeyPressMsg" -> handleKeyPress(m, st)
      [] m.type = "SetRulesetMsg" -> handleSetRuleset(m, st)
      [] m.type = "SetPlayerCountMsg" -> handleSetPlayerCount(m, st)
      [] m.type = "SetPlayerNameMsg" -> handleSetPlayerName(m, st)
      [] m.type = "SetEnableLogMsg" -> handleSetEnableLog(m, st)
      [] OTHER -> st

\* Update(msg, model): what the caller gets back and what it can observe.
\*   model : the returned model, its Players read through the heap
\*   input : the model that was passed in, its Players read through the heap
\*           after the call
\*   cmd   : the returned Command
\*   sent  : the entries handed to the log channel
Update(m, s) ==
    LET st == UpdateHeap(m, Load(s))
    IN [model |-> Deref(st.heap, st.model),
        input |-> Deref(st.heap, Load(s).model),
        cmd |-> st.cmd,
        sent |-> st.sent,
        panicked |-> st.panicked,
        shared |-> st.model.Players = Load(s).model.Players]

\* ------------------------------------------------------------ the reducer
\* createInitialLog: the first entry of a player's ActionLog
createInitialLog(player, default, text) ==
    LET phases == Rules[default + 1].Phases
        currentPhase == IF player.CurrentPhase < Len(phases) /\ player.CurrentPhase >= 0
                        THEN phases[player.CurrentPhase + 1] ELSE ""
    IN [player EXCEPT !.ActionLog =
            Append(@, [Turn |-> player.TurnCount, Phase |-> currentPhase,
                       Message |-> Text(text)])]

\* the model main builds from the loaded options: n players, ruleset `default`
NewModel(n, default) ==
    [Players |-> [i \in 1..n |->
                    createInitialLog(NewPlayer(i), default,
                        IF i = 1 THEN "Initialized - active player" ELSE "Initialized")],
     Phases |-> Rules[default + 1].Phases,
     GameStatus |-> gameNotStarted,
     CurrentScreen |-> "main",
     GameStarted |-> FALSE,
     Options |-> [Default |-> default, PlayerCount |-> n,
                  PlayerNames |-> [i \in 1..n |-> "Player"],
                  LoggingEnabled |-> TRUE],
     TotalGameTime |-> 0]

\* the part of the state space that is explored
Bounded(m) ==
    /\ m.TotalGameTime <= MaxTime
    /\ \A i \in 1..Len(m.Players) : Len(m.Players[i].ActionLog) <= MaxLog

Runes == {"o", "O", "a", "A", "s", "S", "e", "E", "p", "P", "b", "B", "q", "Q", " ", "x"}
\* the key events: a rune, or a key without one
KeyPresses ==
    {KeyPressMsg("KeyRune", r) : r \in Runes}
        \cup {KeyPressMsg(k, "") : k \in {"KeyEscape", "KeyCtrlC", "KeyEnter"}}

\* the event loop runs no queued function
NoUpdate == [by |-> "none", f |-> "none"]

\* the consumer holds no result of Update
NoRes == [model |-> [none |-> TRUE], cmd |-> noCommand, shared |-> TRUE]

\* ---------------------------------------------------------- package logging
\* logging/logging.go: the buffered channel of log entries, the goroutine
\* that drains it into logs.csv, and Initialise, Cleanup and SendLogEntry.
\* make(chan common.LogEntry, 100)
LogCapacity == 100

\* common.LogEntry{Message: fmt.Sprintf("Log %d", i)}
LogEntry(i) == [Message |-> i]

NoEntry == [Message |-> 0]

\* the rows of logs.csv
HeaderRow == [header |-> TRUE, Message |-> 0]

DataRow(entry) == [header |-> FALSE, Message |-> entry.Message]

\* the package variables before any call (logChannel is nil), no log file;
\* logChannel.id tells the channels made by Initialise apart, snd.limit is the
\* number of entries the caller of SendLogEntry has to submit, and faults the
\* number of calls of writeLogEntry that can still fail
NewLogger ==
    [ logInitialized |-> FALSE,
      logMutex |-> FALSE,
      logWg |-> 0,
      logChannel |-> [id |-> 0, made |-> FALSE, closed |-> FALSE, buf |-> << >>],
      drain |-> [pc |-> "none", entry |-> NoEntry],
      file |-> [exists |-> FALSE, rows |-> << >>],
      main |-> "idle",
      snd |-> [pc |-> "idle", sent |-> 0, limit |-> MaxSubmits],
      faults |-> 0,
      panicked |-> FALSE ]

\* Initialise without the test of logInitialized
Initialise_Always(l) ==
    [l EXCEPT !.logChannel = [id |-> @.id + 1, made |-> TRUE, closed |-> FALSE, buf |-> << >>],
              !.logWg = @ + 1,
              !.drain = [pc |-> "range", entry |-> NoEntry],
              !.logInitialized = TRUE]

\* Initialise, with logMutex held: a no-op when logInitialized, else a new
\* channel, logWg.Add(1), the writer goroutine, logInitialized = true
Initialise(l) ==
    IF l.logInitialized
        THEN l
        ELSE [l EXCEPT !.logChannel = [id |-> @.id + 1, made |-> TRUE, closed |-> FALSE, buf |-> << >>],
                       !.logWg = @ + 1,
                       !.drain = [pc |-> "range", entry |-> NoEntry],
                       !.logInitialized = TRUE]

\* writeLogEntry: the header row if os.Stat finds no file, then the entry
writeLogEntry(file, entry) ==
    [ exists |-> TRUE,
      rows |-> (IF file.exists THEN file.rows ELSE <<HeaderRow>>) \o <<DataRow(entry)>> ]

\* main before App.Run: both goroutines started, nothing queued
InitRuntime ==
    /\ done = FALSE
    /\ tk = "select"
    /\ cs = [pc |-> "select", msg |-> NoMsg, res |-> NoRes]
    /\ ui = [pc |-> "loop", out |-> << >>, f |-> NoUpdate, live |-> TRUE]
    /\ updates = << >>
    /\ cmds = EmptyBag
    /\ modal = FALSE
    /\ reducing = 0
    /\ accepted = << >>
    /\ reduced = << >>
    /\ inputs = 0

Init ==
    /\ \E n \in PlayerCounts, d \in 0..(Len(Rules) - 1) : model = NewModel(n, d)
    /\ InitRuntime
    /\ logger = Initialise(NewLogger)

\* updatedModel, cmd := Update(msg, model); model = updatedModel.  A panic in
\* Update ends the program: there is no next state.
Reduce(m) ==
    LET r == Update(m, model)
    IN /\ ~r.panicked
       /\ Bounded(r.model)
       /\ model' = r.model
       /\ UNCHANGED <<runtime, logger>>

StartGame == Reduce(StartGameMsg)
EndGame == Reduce(EndGameMsg)
EndGameConfirm == \E c \in BOOLEAN : Reduce(EndGameConfirmMsg(c))
ShowEndGameConfirm == Reduce(ShowEndGameConfirmMsg)
SwitchTurns == Reduce(SwitchTurnsMsg)
NextPhase == Reduce(NextPhaseMsg)
PrevPhase == Reduce(PrevPhaseMsg)
ShowOptions == Reduce(ShowOptionsMsg)
ShowAbout == Reduce(ShowAboutMsg)
ShowMainScreen == Reduce(ShowMainScreenMsg)
RestoreMainUI == Reduce(RestoreMainUIMsg)
Tick == Reduce(TickMsg)
KeyPress == \E m \in KeyPresses : Reduce(m)
\* the ruleset dropdown of the options screen
SetRuleset == \E i \in 0..(Len(Rules) - 1) : Reduce(SetRulesetMsg(i))
\* a nil message, and a message of a type Update has no case for
Unhandled == \E m \in {NoMsg, ShowModalMsg("EndGameConfirm")} : Reduce(m)

Next ==
    \/ StartGame
    \/ EndGame
    \/ EndGameConfirm
    \/ ShowEndGameConfirm
    \/ SwitchTurns
    \/ NextPhase
    \/ PrevPhase
    \/ ShowOptions
    \/ ShowAbout
    \/ ShowMainScreen
    \/ RestoreMainUI
    \/ Tick
    \/ KeyPress
    \/ Unhandled

Spec == Init /\ [][Next]_vars

\* The reducer with the options screen: the game started, paused and resumed,
\* the turn switched, and the player count, the player names and the logging
\* option set, with counts and indexes from -1 to MaxCount.
Names == {"Ann"}

SetPlayerCount == \E c \in (-1)..MaxCount : Reduce(SetPlayerCountMsg(c))
SetPlayerName == \E i \in (-1)..MaxCount, name \in Names : Reduce(SetPlayerNameMsg(i, name))
SetEnableLog == \E v \in BOOLEAN : Reduce(SetEnableLogMsg(v))

InitOptions ==
    /\ model = NewModel(2, 0)
    /\ InitRuntime
    /\ logger = Initialise(NewLogger)

NextOptions ==
    \/ StartGame
    \/ SwitchTurns
    \/ SetPlayerCount
    \/ SetPlayerName
    \/ SetEnableLog
    \/ Unhandled

SpecOptions == InitOptions /\ [][NextOptions]_vars

\* The reducer with the ruleset dropdown of the options screen: the messages
\* that write a player's CurrentPhase, the phase list or the selected ruleset,
\* and the ones that start and end the game.
NextRules ==
    \/ StartGame
    \/ EndGame
    \/ EndGameConfirm
    \/ SwitchTurns
    \/ NextPhase
    \/ PrevPhase
    \/ SetRuleset

SpecRules == Init /\ [][NextRules]_vars

\* ---------------------------------------------------- a scripted session
\* The reducer fed with one session: Start, SwitchTurns, NextPhase, up to
\* MaxTicks Ticks, and then the answer to the end-game confirmation.  The
\* messages reduced so far are kept in `reduced`.
Opening == <<StartGameMsg, SwitchTurnsMsg, NextPhaseMsg>>

\* the opening followed by k ticks
OpeningAndTicks(k) == Opening \o [i \in 1..k |-> TickMsg]

\* updatedModel, cmd := Update(msg, model); model = updatedModel
Play(m) ==
    /\ model' = Update(m, model).model
    /\ reduced' = Append(reduced, m)
    /\ UNCHANGED <<logger, done, tk, cs, ui, updates, cmds, modal, reducing, accepted, inputs>>

PlayOpening ==
    /\ Len(reduced) < Len(Opening)
    /\ reduced = SubSeq(Opening, 1, Len(reduced))
    /\ Play(Opening[Len(reduced) + 1])

PlayTick ==
    /\ \E k \in 0..(MaxTicks - 1) : reduced = OpeningAndTicks(k)
    /\ Play(TickMsg)

PlayEndGameConfirm ==
    /\ \E k \in 0..MaxTicks : reduced = OpeningAndTicks(k)
    /\ \E c \in BOOLEAN : Play(EndGameConfirmMsg(c))

NextSession ==
    \/ PlayOpening
    \/ PlayTick
    \/ PlayEndGameConfirm

SpecSession == Init /\ [][NextSession]_vars

\* ------------------------------------------------------------ the run loop
\* cmd/hammerclock/main.go.  msgChan is unbuffered: a send is a rendezvous with
\* the receive of the consumer loop, and the sender waits until then.
\* QueueUpdateDraw(f) of tview puts f on the queue of the event loop and
\* returns after the event loop has run it.

\* the keys pressed in the run loop
BusKeyPresses ==
    {KeyPressMsg("KeyRune", "s"), KeyPressMsg("KeyRune", "e"),
     KeyPressMsg("KeyRune", " "), KeyPressMsg("KeyEnter", "")}

\* view.App.QueueUpdateDraw(f) called by goroutine `who`
QueueUpdateDraw(who, f) == updates' = Append(updates, [by |-> who, f |-> f])

\* --- the ticker goroutine
\* case <-ticker.C
TickerFire ==
    /\ tk = "select"
    /\ inputs < MaxInputs
    /\ tk' = "check"
    /\ inputs' = inputs + 1
    /\ UNCHANGED <<logger, model, done, cs, ui, updates, cmds, modal, reducing, accepted, reduced>>

\* if model.GameStarted { QueueUpdateDraw(UpdateClock(&model)) }, then on to
\* msgChan <- &TickMsg{}
TickerCheck ==
    /\ tk = "check"
    /\ IF model.GameStarted
       THEN QueueUpdateDraw("ticker", "UpdateClock") /\ tk' = "queued"
       ELSE tk' = "send" /\ UNCHANGED updates
    /\ UNCHANGED <<logger, model, done, cs, ui, cmds, modal, reducing, accepted, reduced, inputs>>

\* case <-done: return
TickerDone ==
    /\ tk = "select"
    /\ done
    /\ tk' = "exit"
    /\ UNCHANGED <<logger, model, done, cs, ui, updates, cmds, modal, reducing, accepted, reduced, inputs>>

\* --- the consumer loop
\* the loop of Update calls each on a goroutine of its own
Deliver_Concurrent(m) ==
    /\ cs.pc = "select"
    /\ accepted' = Append(accepted, m)
    /\ reduced' = Append(reduced, m)
    /\ reducing' = reducing + 1
    /\ UNCHANGED cs

\* case msg := <-msgChan: the consumer takes m from a waiting sender
Deliver(m) ==
    /\ cs.pc = "select"
    /\ cs' = [pc |-> "recvd", msg |-> m, res |-> NoRes]
    /\ accepted' = Append(accepted, m)
    /\ UNCHANGED <<reduced, reducing>>

RecvFromTicker ==
    /\ tk = "send"
    /\ Deliver(TickMsg)
    /\ tk' = "select"
    /\ UNCHANGED <<logger, model, done, ui, updates, cmds, modal, inputs>>

RecvFromUI ==
    /\ ui.pc = "send"
    /\ Deliver(Head(ui.out))
    /\ ui' = [ui EXCEPT !.out = Tail(@),
                        !.pc = IF Len(ui.out) = 1 THEN "loop" ELSE "send"]
    /\ UNCHANGED <<logger, model, done, tk, updates, cmds, modal, inputs>>

RecvFromCommand ==
    \E g \in BagToSet(cmds) :
        /\ g.pc = "send"
        /\ Deliver(g.msg)
        /\ cmds' = cmds (-) SetToBag({g})
        /\ UNCHANGED <<logger, model, done, tk, ui, updates, modal, inputs>>

\* the received message is dropped without a call of Update
ConsumerUpdate_Skip ==
    /\ cs.pc = "recvd"
    /\ cs' = [pc |-> "select", msg |-> NoMsg, res |-> NoRes]
    /\ UNCHANGED <<logger, model, done, tk, ui, updates, cmds, modal, reducing, accepted,
                   reduced, inputs>>

\* updatedModel, cmd := Update(msg, model): the call.  What a handler writes
\* through the shared Player pointers shows in model at once.
ConsumerUpdate ==
    /\ cs.pc = "recvd"
    /\ LET r == Update(cs.msg, model)
       IN /\ cs' = [cs EXCEPT !.pc = "update",
                              !.res = [model |-> r.model, cmd |-> r.cmd,
                                       shared |-> r.shared]]
          /\ model' = r.input
    /\ reduced' = Append(reduced, cs.msg)
    /\ reducing' = reducing + 1
    /\ UNCHANGED <<logger, done, tk, ui, updates, cmds, modal, accepted, inputs>>

\* Update returns; model = updatedModel; SaveOptions;
\* QueueUpdateDraw(Render(&model))
ConsumerAssign ==
    /\ cs.pc = "update"
    /\ reducing' = reducing - 1
    /\ model' = cs.res.model
    /\ QueueUpdateDraw("consumer", "Render")
    /\ cs' = [cs EXCEPT !.pc = "render"]
    /\ ui' = [ui EXCEPT !.live = @ /\ cs.res.shared]
    /\ UNCHANGED <<logger, done, tk, cmds, modal, accepted, reduced, inputs>>

\* if cmd != nil { go func() {...}() }: noCommand is a function too, so a
\* goroutine is started for every message
ConsumerSpawn ==
    /\ cs.pc = "spawn"
    /\ cmds' = cmds (+) SetToBag({[pc |-> "run", msg |-> cs.res.cmd]})
    /\ cs' = [pc |-> "select", msg |-> NoMsg, res |-> NoRes]
    /\ UNCHANGED <<logger, model, done, tk, ui, updates, modal, reducing, accepted, reduced, inputs>>

\* case <-done: return
ConsumerDone ==
    /\ cs.pc = "select"
    /\ done
    /\ cs' = [cs EXCEPT !.pc = "exit"]
    /\ UNCHANGED <<logger, model, done, tk, ui, updates, cmds, modal, reducing, accepted, reduced, inputs>>

\* --- the goroutine of a Command: resultMsg := cmd()
\* resultMsg == nil
CommandNil ==
    \E g \in BagToSet(cmds) :
        /\ g.pc = "run"
        /\ g.msg = NoMsg
        /\ cmds' = cmds (-) SetToBag({g})
        /\ UNCHANGED <<logger, model, done, tk, cs, ui, updates, modal, reducing, accepted, reduced, inputs>>

\* a ShowModalMsg or a RestoreMainUIMsg: the goroutine queues the change of
\* the view itself
CommandQueue ==
    \E g \in BagToSet(cmds) :
        /\ g.pc = "run"
        /\ g.msg.type \in {"ShowModalMsg", "RestoreMainUIMsg"}
        /\ QueueUpdateDraw("command", g.msg.type)
        /\ cmds' = (cmds (-) SetToBag({g})) (+) SetToBag({[g EXCEPT !.pc = "queued"]})
        /\ UNCHANGED <<logger, model, done, tk, cs, ui, modal, reducing, accepted, reduced, inputs>>

\* the goroutine returning without the send
CommandSend_Drop ==
    \E g \in BagToSet(cmds) :
        /\ g.pc = "run"
        /\ g.msg # NoMsg
        /\ g.msg.type \notin {"ShowModalMsg", "RestoreMainUIMsg"}
        /\ cmds' = cmds (-) SetToBag({g})
        /\ UNCHANGED <<logger, model, done, tk, cs, ui, updates, modal, reducing, accepted, reduced, inputs>>

\* any other message: msgChan <- resultMsg
CommandSend ==
    \E g \in BagToSet(cmds) :
        /\ g.pc = "run"
        /\ g.msg # NoMsg
        /\ g.msg.type \notin {"ShowModalMsg", "RestoreMainUIMsg"}
        /\ cmds' = (cmds (-) SetToBag({g})) (+) SetToBag({[g EXCEPT !.pc = "send"]})
        /\ UNCHANGED <<logger, model, done, tk, cs, ui, updates, modal, reducing, accepted, reduced, inputs>>

\* --- the event loop of App.Run, on the main goroutine
\* a key event: the input capture sends a KeyPressMsg; Enter on the modal then
\* reaches its button, whose handler sends the answer
UIKey ==
    /\ ui.pc = "loop"
    /\ inputs < MaxInputs
    /\ \E k \in BusKeyPresses, c \in BOOLEAN :
          ui' = [ui EXCEPT !.pc = "send",
                           !.out = IF modal /\ k.Key = "KeyEnter"
                                   THEN <<k, EndGameConfirmMsg(c)>> ELSE <<k>>]
    /\ inputs' = inputs + 1
    /\ UNCHANGED <<logger, model, done, tk, cs, updates, cmds, modal, reducing, accepted, reduced>>

\* a mouse click on a button of the modal: its handler sends the answer
UIClick ==
    /\ ui.pc = "loop"
    /\ modal
    /\ inputs < MaxInputs
    /\ \E c \in BOOLEAN : ui' = [ui EXCEPT !.pc = "send", !.out = <<EndGameConfirmMsg(c)>>]
    /\ inputs' = inputs + 1
    /\ UNCHANGED <<logger, model, done, tk, cs, updates, cmds, modal, reducing, accepted, reduced>>

\* for i := range model.Players { model.Players[i].IsTurn = false }
\* player.IsTurn = true
SelectPlayer(m, i) ==
    [m EXCEPT !.Players = [j \in 1..Len(m.Players) |-> [m.Players[j] EXCEPT !.IsTurn = (j = i)]]]

\* a left click on the panel of a player: the mouse capture of the panel
\* writes IsTurn itself when this player is not the active one and is still
\* one of model.Players.  The panels hold the players main created (ui.live:
\* no handler has replaced them yet); what the click writes shows in the
\* result of a running Update that shares these players.
UIPanelClick ==
    /\ ui.pc = "loop"
    /\ ~modal
    /\ ui.live
    /\ inputs < MaxInputs
    /\ \E i \in 1..Len(model.Players) :
          /\ ~model.Players[i].IsTurn
          /\ model' = SelectPlayer(model, i)
          /\ cs' = IF cs.pc = "update" /\ cs.res.shared
                   THEN [cs EXCEPT !.res.model = SelectPlayer(@, i)]
                   ELSE cs
    /\ inputs' = inputs + 1
    /\ UNCHANGED <<logger, done, tk, ui, updates, cmds, modal, reducing, accepted, reduced>>

\* the event loop takes the oldest queued function
UITake ==
    /\ ui.pc = "loop"
    /\ updates # << >>
    /\ ui' = [ui EXCEPT !.pc = "run", !.f = Head(updates)]
    /\ updates' = Tail(updates)
    /\ UNCHANGED <<logger, model, done, tk, cs, cmds, modal, reducing, accepted, reduced, inputs>>

\* the function has run and the goroutine that queued it goes on
UIFinish ==
    /\ ui.pc = "run"
    /\ ui' = [ui EXCEPT !.pc = "loop", !.f = NoUpdate]
    /\ modal' = CASE ui.f.f = "ShowModalMsg" -> TRUE
                  [] ui.f.f = "RestoreMainUIMsg" -> FALSE
                  [] OTHER -> modal
    /\ tk' = IF ui.f.by = "ticker" THEN "send" ELSE tk
    /\ cs' = IF ui.f.by = "consumer" THEN [cs EXCEPT !.pc = "spawn"] ELSE cs
    /\ cmds' = IF ui.f.by = "command"
               THEN cmds (-) SetToBag({[pc |-> "queued", msg |->
                        IF ui.f.f = "ShowModalMsg" THEN ShowModalMsg("EndGameConfirm")
                                                   ELSE RestoreMainUIMsg]})
               ELSE cmds
    /\ UNCHANGED <<logger, model, done, updates, reducing, accepted, reduced, inputs>>

\* App.Run returns
UIStop ==
    /\ ui.pc = "loop"
    /\ ui' = [ui EXCEPT !.pc = "stopped"]
    /\ UNCHANGED <<logger, model, done, tk, cs, updates, cmds, modal, reducing, accepted, reduced, inputs>>

\* main closing done and staying where it can close it again
MainClose_Twice ==
    /\ ui.pc = "stopped"
    /\ IF done THEN ui' = [ui EXCEPT !.pc = "panic"] /\ UNCHANGED done
               ELSE done' = TRUE /\ UNCHANGED ui
    /\ UNCHANGED <<logger, model, tk, cs, updates, cmds, modal, reducing, accepted, reduced, inputs>>

\* close(done), after App.Run has returned: the close of a closed channel
\* panics; then logging.Cleanup() and the return of main
MainClose ==
    /\ ui.pc = "stopped"
    /\ IF done THEN ui' = [ui EXCEPT !.pc = "panic"] /\ UNCHANGED done
               ELSE done' = TRUE /\ ui' = [ui EXCEPT !.pc = "closed"]
    /\ UNCHANGED <<logger, model, tk, cs, updates, cmds, modal, reducing, accepted, reduced, inputs>>

\* main with the default options: two players, the first ruleset
InitBus ==
    /\ model = NewModel(2, 0)
    /\ InitRuntime
    /\ logger = Initialise(NewLogger)

NextBus ==
    \/ TickerFire
    \/ TickerCheck
    \/ TickerDone
    \/ RecvFromTicker
    \/ RecvFromUI
    \/ RecvFromCommand
    \/ ConsumerUpdate
    \/ ConsumerAssign
    \/ ConsumerSpawn
    \/ ConsumerDone
    \/ CommandNil
    \/ CommandQueue
    \/ CommandSend
    \/ UIKey
    \/ UIClick
    \/ UIPanelClick
    \/ UITake
    \/ UIFinish
    \/ UIStop
    \/ MainClose

SpecBus == InitBus /\ [][NextBus]_vars

\* The Go scheduler runs every goroutine that can take a step, and a select
\* with a ready case takes one: each step of the ticker, of the consumer loop,
\* of a Command goroutine, of the event loop on its queue and of main after
\* App.Run is taken if it stays possible.  The user owes no key, no click and
\* no quit.  (The call of Update is possible exactly when the consumer loop
\* holds a received message, and it ends that: its fairness is written so.)
BusFairness ==
    /\ WF_vars(TickerCheck)
    /\ WF_vars(TickerDone)
    /\ WF_vars(RecvFromTicker)
    /\ WF_vars(RecvFromUI)
    /\ WF_vars(RecvFromCommand)
    /\ []<>(cs.pc # "recvd")
    /\ WF_vars(ConsumerAssign)
    /\ WF_vars(ConsumerSpawn)
    /\ WF_vars(ConsumerDone)
    /\ WF_vars(CommandNil)
    /\ WF_vars(CommandQueue)
    /\ WF_vars(CommandSend)
    /\ WF_vars(UITake)
    /\ WF_vars(UIFinish)
    /\ WF_vars(MainClose)

SpecBusFair == SpecBus /\ BusFairness

\* ------------------------------------------------- the callers of logging
\* The functions of package logging as their callers run them: main calls
\* Initialise and Cleanup, the goroutine that runs Update calls SendLogEntry
\* (through AddLogEntry), and the writer goroutine drains the channel.  A
\* panic in any goroutine ends the program.
LogStep(l) ==
    /\ ~logger.panicked
    /\ logger' = l
    /\ UNCHANGED <<model, runtime>>

\* Initialise() called by main
MainInitialise ==
    /\ logger.main = "idle"
    /\ ~logger.logMutex
    /\ LogStep(Initialise(logger))

\* Cleanup: logMutex.Lock(); return if not initialised; close(logChannel)
CleanupClose ==
    /\ logger.main = "idle"
    /\ ~logger.logMutex
    /\ logger.logInitialized
    /\ logger.logChannel.id <= MaxCycles
    /\ LogStep([logger EXCEPT !.logMutex = TRUE,
                              !.logChannel.closed = TRUE,
                              !.main = "wait"])

\* Cleanup leaving logInitialized as it is
CleanupWait_KeepsInitialised ==
    /\ logger.main = "wait"
    /\ logger.logWg = 0
    /\ LogStep([logger EXCEPT !.main = "unlock"])

\* Cleanup going on without logWg.Wait()
CleanupWait_NoWait ==
    /\ logger.main = "wait"
    /\ LogStep([logger EXCEPT !.logInitialized = FALSE, !.main = "unlock"])

\* Cleanup: logWg.Wait() returns; logInitialized = false
CleanupWait ==
    /\ logger.main = "wait"
    /\ logger.logWg = 0
    /\ LogStep([logger EXCEPT !.logInitialized = FALSE, !.main = "unlock"])

\* Cleanup: the deferred logMutex.Unlock()
CleanupUnlock ==
    /\ logger.main = "unlock"
    /\ LogStep([logger EXCEPT !.logMutex = FALSE, !.main = "idle"])

\* SendLogEntry: if !logInitialized (read without the mutex)
SendCheck ==
    /\ logger.snd.pc = "idle"
    /\ logger.snd.sent < logger.snd.limit
    /\ LogStep([logger EXCEPT !.snd.pc = IF logger.logInitialized THEN "select" ELSE "init"])

\* SendLogEntry: Initialise(), which waits for logMutex
SendInitialise ==
    /\ logger.snd.pc = "init"
    /\ ~logger.logMutex
    /\ LogStep([Initialise(logger) EXCEPT !.snd.pc = "select"])

\* the select sending on a channel without a capacity limit
SendSelect_Unbounded ==
    LET entry == LogEntry(logger.snd.sent + 1)
        returned == [logger EXCEPT !.snd.pc = "idle", !.snd.sent = @ + 1]
    IN /\ logger.snd.pc = "select"
       /\ LogStep([returned EXCEPT !.logChannel.buf = Append(@, entry)])

\* select { case logChannel <- entry: default: return }: a send on a closed
\* channel panics, a send on a nil or full channel is not ready
SendSelect ==
    LET entry == LogEntry(logger.snd.sent + 1)
        ch == logger.logChannel
        returned == [logger EXCEPT !.snd.pc = "idle", !.snd.sent = @ + 1]
    IN /\ logger.snd.pc = "select"
       /\ LogStep(IF ch.made /\ ch.closed
                     THEN [logger EXCEPT !.snd.pc = "panic", !.panicked = TRUE]
                  ELSE IF ch.made /\ Len(ch.buf) < LogCapacity
                     THEN [returned EXCEPT !.logChannel.buf = Append(@, entry)]
                  ELSE returned)

\* the range loop handing over the next entry and leaving it in the channel
DrainRecv_Peek ==
    /\ logger.drain.pc = "range"
    /\ logger.logChannel.buf # << >>
    /\ Len(logger.file.rows) <= logger.snd.limit
    /\ LogStep([logger EXCEPT !.drain = [pc |-> "write", entry |-> Head(logger.logChannel.buf)]])

\* for entry := range logChannel: the next entry
DrainRecv ==
    /\ logger.drain.pc = "range"
    /\ logger.logChannel.buf # << >>
    /\ LogStep([logger EXCEPT !.drain = [pc |-> "write", entry |-> Head(logger.logChannel.buf)],
                              !.logChannel.buf = Tail(@)])

\* writeLogEntry(entry)
DrainWrite ==
    /\ logger.drain.pc = "write"
    /\ LogStep([logger EXCEPT !.file = writeLogEntry(@, logger.drain.entry),
                              !.drain = [pc |-> "range", entry |-> NoEntry]])

\* the range loop ends on the closed and empty channel; logWg.Done()
DrainExit ==
    /\ logger.drain.pc = "range"
    /\ logger.logChannel.buf = << >>
    /\ logger.logChannel.closed
    /\ LogStep([logger EXCEPT !.drain.pc = "exit", !.logWg = @ - 1])

\* main after logging.Initialise(), with the goroutine of Update started
InitLog ==
    /\ model = NewModel(2, 0)
    /\ InitRuntime
    /\ logger = Initialise(NewLogger)

\* writeLogEntry cannot open logs.csv (os.OpenFile fails): it prints the
\* error and returns, and the range loop goes on
DrainWriteFails ==
    /\ logger.drain.pc = "write"
    /\ logger.faults > 0
    /\ LogStep([logger EXCEPT !.drain = [pc |-> "range", entry |-> NoEntry],
                              !.faults = @ - 1])

\* writeLogEntry panics: the deferred function of the goroutine recovers and
\* prints, logWg.Done() runs, and the goroutine has returned
DrainPanic ==
    /\ logger.drain.pc = "write"
    /\ logger.faults > 0
    /\ LogStep([logger EXCEPT !.drain = [pc |-> "exit", entry |-> NoEntry],
                              !.logWg = @ - 1,
                              !.faults = @ - 1])

\* the logger with a log file that fails: a caller with MaxFaultSubmits
\* entries, and up to MaxFaults failing calls of writeLogEntry
InitLogFaults ==
    /\ model = NewModel(2, 0)
    /\ InitRuntime
    /\ logger = [Initialise(NewLogger) EXCEPT !.snd.limit = MaxFaultSubmits,
                                              !.faults = MaxFaults]

NextLog ==
    \/ MainInitialise
    \/ CleanupClose
    \/ CleanupWait
    \/ CleanupUnlock
    \/ SendCheck
    \/ SendInitialise
    \/ SendSelect
    \/ DrainRecv
    \/ DrainWrite
    \/ DrainExit

SpecLog == InitLog /\ [][NextLog]_vars

NextLogFaults ==
    \/ NextLog
    \/ DrainWriteFails
    \/ DrainPanic

SpecLogFaults == InitLogFaults /\ [][NextLogFaults]_vars

\* ---------------------------------------------------- claims on the reducer
\* every message value the actions of Next pass to Update
Messages ==
    {StartGameMsg, EndGameMsg, EndGameConfirmMsg(TRUE), EndGameConfirmMsg(FALSE),
     ShowEndGameConfirmMsg, SwitchTurnsMsg, NextPhaseMsg, PrevPhaseMsg,
     ShowOptionsMsg, ShowAboutMsg, ShowMainScreenMsg, RestoreMainUIMsg, TickMsg,
     NoMsg, ShowModalMsg("EndGameConfirm")} \cup KeyPresses
        \cup {SetRulesetMsg(i) : i \in 0..(Len(Rules) - 1)}

PlayerIds(m) == 1..Len(m.Players)
ActivePlayers(m) == {i \in PlayerIds(m) : m.Players[i].IsTurn}
HasLogged(p, f) == \E k \in 1..Len(p.ActionLog) : p.ActionLog[k].Message.fmt = f

\* C1: in every reachable state, for any number of players, GameStarted
\* implies that exactly one player has IsTurn = true.
C1_ExactlyOneActive ==
    model.GameStarted => Cardinality(ActivePlayers(model)) = 1

\* C6: Update never mutates the state it was given: after Update(msg, s)
\* returns, s and every Player reachable from it are as before the call, for
\* every message.
C6_UpdateKeepsInput ==
    \A m \in Messages : Update(m, model).input = model

\* C7: from a state with GameStatus = NotStarted three consecutive Start
\* messages give InProgress, Paused, InProgress, the first sets GameStarted, and
\* a Start message never yields NotStarted.
C7_StartCycle ==
    LET s1 == Update(StartGameMsg, model).model
        s2 == Update(StartGameMsg, s1).model
        s3 == Update(StartGameMsg, s2).model
    IN /\ s1.GameStatus # gameNotStarted
       /\ model.GameStatus = gameNotStarted =>
            /\ s1.GameStatus = gameInProgress
            /\ s1.GameStarted
            /\ s2.GameStatus = gamePaused
            /\ s3.GameStatus = gameInProgress

\* a state three Start messages after NotStarted: started, paused and resumed
C7_Witness ==
    /\ model.GameStatus = gameInProgress
    /\ \E i \in PlayerIds(model) :
          /\ HasLogged(model.Players[i], "Game started")
          /\ HasLogged(model.Players[i], "Game paused")
          /\ HasLogged(model.Players[i], "Game resumed")

\* C8: a Tick adds one second to TotalGameTime and to the TimeElapsed of the
\* player whose IsTurn is true, and nothing to the others, exactly when
\* GameStarted and GameStatus = InProgress; in every other state it changes
\* neither any TimeElapsed nor TotalGameTime.
C8_Tick ==
    LET r == Update(TickMsg, model).model
        running == model.GameStarted /\ model.GameStatus = gameInProgress
    IN /\ Len(r.Players) = Len(model.Players)
       /\ running =>
            /\ r.TotalGameTime = model.TotalGameTime + 1
            /\ \A i \in PlayerIds(model) :
                  r.Players[i].TimeElapsed =
                      model.Players[i].TimeElapsed
                          + (IF model.Players[i].IsTurn THEN 1 ELSE 0)
       /\ ~running =>
            /\ r.TotalGameTime = model.TotalGameTime
            /\ \A i \in PlayerIds(model) :
                  r.Players[i].TimeElapsed = model.Players[i].TimeElapsed

\* ticks have been counted for the active player and not for a waiting one,
\* and the game is paused, where the next Tick counts nothing
C8_Witness ==
    /\ model.GameStatus = gamePaused
    /\ model.TotalGameTime = MaxTime
    /\ \E i, j \in PlayerIds(model) :
          /\ model.Players[i].IsTurn /\ model.Players[i].TimeElapsed = MaxTime
          /\ ~model.Players[j].IsTurn /\ model.Players[j].TimeElapsed = 0

\* every player is as at the start of a session, the turn with player 0
PlayersReset(m) ==
    \A i \in PlayerIds(m) :
        /\ m.Players[i].TimeElapsed = 0
        /\ m.Players[i].TurnCount = 0
        /\ m.Players[i].CurrentPhase = 0
        /\ m.Players[i].IsTurn = (i = 1)

\* C9 (as claimed): in every reachable state Update with
\* EndGameConfirm{Confirmed:true} returns a state with every player's
\* TimeElapsed, TurnCount and CurrentPhase zero and IsTurn with player 0 only.
C9_ConfirmResets ==
    PlayersReset(Update(EndGameConfirmMsg(TRUE), model).model)

\* C9 (amended): the same in every reachable state with GameStarted = true;
\* in a state with GameStarted = false the message changes no player.
C9_ConfirmResetsStarted ==
    LET r == Update(EndGameConfirmMsg(TRUE), model)
    IN IF model.GameStarted THEN PlayersReset(r.model)
                            ELSE r.model.Players = model.Players

\* a started game in which another player than player 0 has the turn, with
\* time on its clock, a turn counted and a phase entered
C9_Witness ==
    /\ model.GameStarted
    /\ \E i \in PlayerIds(model) :
          /\ i # 1
          /\ model.Players[i].IsTurn
          /\ model.Players[i].TimeElapsed > 0
          /\ model.Players[i].TurnCount > 0
          /\ model.Players[i].CurrentPhase > 0

\* C10: Update with EndGameConfirm{Confirmed:false} returns a state equal to
\* the state it was given, and leaves that state as it was.
C10_CancelChangesNothing ==
    LET r == Update(EndGameConfirmMsg(FALSE), model)
    IN r.model = model /\ r.input = model

\* a started game with progress that a confirmed end would reset
C10_Witness ==
    /\ model.GameStarted
    /\ model.TotalGameTime > 0
    /\ \E i \in PlayerIds(model) :
          model.Players[i].TurnCount > 0 /\ model.Players[i].TimeElapsed > 0

\* --------------------------------------------------- claims on the run loop
\* a goroutine other than the consumer loop is reading the model: the ticker
\* at `if model.GameStarted`, or the event loop inside view.Render(&model) or
\* view.UpdateClock(&model)
OtherActorAccesses ==
    \/ tk = "check"
    \/ ui.pc = "run" /\ ui.f.f \in {"Render", "UpdateClock"}

\* the senders waiting on msgChan
WaitingSenders ==
    (IF tk = "send" THEN {"ticker"} ELSE {})
      \cup (IF ui.pc = "send" THEN {"ui"} ELSE {})
      \cup {"command" : g \in {h \in BagToSet(cmds) : h.pc = "send"}}

\* C2: no two invocations of Update overlap in time, whatever the producers
\* (ticker, key capture, modal callbacks, command goroutines) do: at most one
\* call of Update is in progress.
C2_NoOverlap == reducing <= 1

\* a call of Update in progress while the ticker and the event loop both wait
\* to send
C2_Witness ==
    /\ reducing = 1
    /\ cs.pc = "update"
    /\ {"ticker", "ui"} \subseteq WaitingSenders

\* C3: every message the channel accepted is passed to Update exactly once and
\* in the order of acceptance: the messages reduced are the messages accepted,
\* but for the one just received and not yet reduced.
C3_FifoExactlyOnce ==
    IF cs.pc = "recvd"
    THEN accepted = Append(reduced, cs.msg)
    ELSE accepted = reduced

\* messages of three producers (the ticker, the key capture and a command)
\* have been accepted and reduced
C3_Witness ==
    /\ Len(reduced) >= 3
    /\ \E i, j, k \in 1..Len(reduced) :
          /\ reduced[i] = TickMsg
          /\ reduced[j].type = "KeyPressMsg"
          /\ reduced[k] = ShowEndGameConfirmMsg

\* C4: a handler sending from the event loop is never blocked forever: in no
\* reachable state does the event loop wait to send on msgChan while the
\* consumer loop waits for the event loop to run the redraw it queued.
C4_NoDeadlock == ~(ui.pc = "send" /\ cs.pc = "render")

\* C5: only the consumer loop reads or writes the model, so that no access of
\* another goroutine is concurrent with the consumer loop's call of Update and
\* its write of the new state.
C5_OnlyConsumerAccesses == cs.pc \in {"recvd", "update"} => ~OtherActorAccesses

\* -------------------------------------------- further claims on the reducer
\* the session of `before` was started and `after` is the reset session
ResetPerformed(before, after) ==
    /\ before.GameStarted
    /\ after.GameStatus = gameNotStarted
    /\ after.TotalGameTime = 0
    /\ \A i \in PlayerIds(after) :
          /\ after.Players[i].TimeElapsed = 0
          /\ after.Players[i].TurnCount = 0
          /\ after.Players[i].CurrentPhase = 0

\* the messages that reset the session of a started game
ResetMessages == {EndGameMsg, EndGameConfirmMsg(TRUE)}

\* C11: the reset of the session (players' TimeElapsed, TurnCount and
\* CurrentPhase, TotalGameTime back to zero, GameStatus back to NotStarted) is
\* performed only by EndGameConfirm{Confirmed:true}: no other message accepted
\* by Update performs it.
C11_ResetOnlyOnConfirm ==
    \A m \in Messages \ {EndGameConfirmMsg(TRUE)} :
        ~ResetPerformed(model, Update(m, model).model)

\* C11 (amended): the reset is performed only by EndGameConfirm{Confirmed:true}
\* and by EndGame; no other message, the request for the confirmation and the
\* key presses included, performs it.
C11_ResetOnlyOnEndMessages ==
    \A m \in Messages :
        ResetPerformed(model, Update(m, model).model) <=>
            (m \in ResetMessages /\ model.GameStarted)

\* a started game with a turn counted, for which the request for the
\* confirmation only asks for the modal
C11_Witness ==
    /\ model.GameStarted
    /\ \E i \in PlayerIds(model) : model.Players[i].TurnCount > 0
    /\ ResetPerformed(model, Update(EndGameMsg, model).model)
    /\ Update(ShowEndGameConfirmMsg, model).cmd = ShowModalMsg("EndGameConfirm")
    /\ Update(ShowEndGameConfirmMsg, model).model = model

\* no player of `after` has less TimeElapsed or a lower TurnCount than in
\* `before`, the total time is not lower and a started game is still started
ProgressKept(before, after) ==
    /\ Len(after.Players) = Len(before.Players)
    /\ \A i \in PlayerIds(before) :
          /\ after.Players[i].TimeElapsed >= before.Players[i].TimeElapsed
          /\ after.Players[i].TurnCount >= before.Players[i].TurnCount
    /\ after.TotalGameTime >= before.TotalGameTime
    /\ before.GameStarted => after.GameStarted

\* C12: no single key press destroys session progress: for every KeyPress
\* message the state returned by Update keeps every player's TimeElapsed and
\* TurnCount, TotalGameTime and GameStarted at least as they were; the e key
\* on a started game changes nothing and only asks for the confirmation.
C12_KeyPressKeepsProgress ==
    \A m \in KeyPresses :
        LET r == Update(m, model)
        IN /\ ProgressKept(model, r.model)
           /\ (m.Rune \in {"e", "E"} /\ model.GameStarted) =>
                 r.model = model /\ r.cmd = ShowEndGameConfirmMsg

\* a started game with time and turns counted, on which the e key asks for
\* the confirmation
C12_Witness ==
    /\ model.GameStarted
    /\ model.TotalGameTime > 0
    /\ \E i \in PlayerIds(model) :
          model.Players[i].TurnCount > 0 /\ model.Players[i].TimeElapsed > 0
    /\ Update(KeyPressMsg("KeyRune", "e"), model).cmd = ShowEndGameConfirmMsg

\* C13: phase navigation is clamped, without wraparound: NextPhase then
\* PrevPhase from a phase that is not the last returns each active player to
\* its phase; PrevPhase at phase 0 and NextPhase at the last phase leave
\* CurrentPhase as it is; neither changes the CurrentPhase of a player whose
\* IsTurn is false.
C13_PhaseClamped ==
    LET next == Update(NextPhaseMsg, model).model
        prev == Update(PrevPhaseMsg, model).model
        back == Update(PrevPhaseMsg, next).model
        last == Len(model.Phases) - 1
    IN \A i \in PlayerIds(model) :
          LET p == model.Players[i]
          IN /\ (p.IsTurn /\ p.CurrentPhase >= 0 /\ p.CurrentPhase < last) =>
                    /\ next.Players[i].CurrentPhase = p.CurrentPhase + 1
                    /\ back.Players[i].CurrentPhase = p.CurrentPhase
             /\ (p.IsTurn /\ p.CurrentPhase = 0) =>
                    prev.Players[i].CurrentPhase = 0
             /\ (p.IsTurn /\ p.CurrentPhase = last) =>
                    next.Players[i].CurrentPhase = last
             /\ ~p.IsTurn =>
                    /\ next.Players[i].CurrentPhase = p.CurrentPhase
                    /\ prev.Players[i].CurrentPhase = p.CurrentPhase

\* three phases, the active player at the interior phase and another player
\* without the turn at a phase it has entered
C13_Witness ==
    /\ Len(model.Phases) = 3
    /\ \E i, j \in PlayerIds(model) :
          /\ model.Players[i].IsTurn /\ model.Players[i].CurrentPhase = 1
          /\ ~model.Players[j].IsTurn /\ model.Players[j].CurrentPhase > 0

\* C14: in every reachable state every player's CurrentPhase is at least 0
\* and less than len(Phases), also after SetRuleset has selected a ruleset
\* with fewer phases, or with none, in the middle of a game.
C14_PhaseInRange ==
    \A i \in PlayerIds(model) :
        /\ model.Players[i].CurrentPhase >= 0
        /\ model.Players[i].CurrentPhase < Len(model.Phases)

\* C15: across every transition produced by Update no player's TurnCount
\* decreases.
C15_TurnCountNeverDecreases ==
    \A m \in Messages :
        LET r == Update(m, model).model
        IN \A i \in PlayerIds(model) :
              r.Players[i].TurnCount >= model.Players[i].TurnCount

\* C15 (amended): no player's TurnCount decreases, except in the reset of a
\* started game by the end-game messages, which sets it to zero.
C15_TurnCountDecreasesOnlyOnReset ==
    \A m \in Messages :
        LET r == Update(m, model).model
        IN \A i \in PlayerIds(model) :
              \/ r.Players[i].TurnCount >= model.Players[i].TurnCount
              \/ /\ m \in ResetMessages
                 /\ model.GameStarted
                 /\ r.Players[i].TurnCount = 0

\* a started game with a turn counted, in which SwitchTurns counts a further
\* turn and the confirmed end takes the count back to zero
C15_Witness ==
    /\ model.GameStarted
    /\ \E i \in PlayerIds(model) :
          /\ model.Players[i].TurnCount > 0
          /\ Update(EndGameConfirmMsg(TRUE), model).model.Players[i].TurnCount = 0
    /\ \E j \in PlayerIds(model) :
          Update(SwitchTurnsMsg, model).model.Players[j].TurnCount
              = model.Players[j].TurnCount + 1

\* C16: across every transition produced by Update TotalGameTime never
\* decreases, and it changes only in a transition taken while GameStatus is
\* InProgress.
C16_TotalTimeMonotone ==
    \A m \in Messages :
        LET r == Update(m, model).model
        IN /\ r.TotalGameTime >= model.TotalGameTime
           /\ r.TotalGameTime # model.TotalGameTime => model.GameStatus = gameInProgress

\* C16 (amended): TotalGameTime grows only while GameStatus is InProgress and
\* otherwise stays, except in the reset of a started game by the end-game
\* messages, which sets it to zero in whatever status the game is.
C16_TotalTimeChangesOnlyInProgressOrReset ==
    \A m \in Messages :
        LET r == Update(m, model).model
        IN \/ r.TotalGameTime = model.TotalGameTime
           \/ r.TotalGameTime > model.TotalGameTime /\ model.GameStatus = gameInProgress
           \/ /\ m \in ResetMessages
              /\ model.GameStarted
              /\ r.TotalGameTime = 0

\* a paused game with time on the clock: a Tick leaves the time and the
\* confirmed end takes it to zero
C16_Witness ==
    /\ model.GameStatus = gamePaused
    /\ model.TotalGameTime > 0
    /\ Update(TickMsg, model).model.TotalGameTime = model.TotalGameTime
    /\ Update(EndGameConfirmMsg(TRUE), model).model.TotalGameTime = 0

\* C17: with 2 players and the ruleset of three phases A, B, C, the session
\* Start, SwitchTurns, NextPhase, five Ticks, EndGameConfirm{true} passes
\* through these states: after SwitchTurns player 2 alone is active, with
\* TurnCount 1 and at phase A; after NextPhase player 2 is at phase B; after
\* the five Ticks player 2's TimeElapsed and TotalGameTime are 5 seconds; after
\* the confirmation both players are reset, player 1 is the active player and
\* TotalGameTime is 0.
C17_Session ==
    (Len(model.Players) = 2 /\ model.Phases = <<"A", "B", "C">>) =>
        /\ reduced = SubSeq(Opening, 1, 2) =>
              /\ ActivePlayers(model) = {2}
              /\ model.Players[2].TurnCount = 1
              /\ model.Phases[model.Players[2].CurrentPhase + 1] = "A"
        /\ reduced = Opening =>
              model.Phases[model.Players[2].CurrentPhase + 1] = "B"
        /\ reduced = OpeningAndTicks(5) =>
              /\ model.Players[2].TimeElapsed = 5
              /\ model.TotalGameTime = 5
        /\ reduced = Append(OpeningAndTicks(5), EndGameConfirmMsg(TRUE)) =>
              /\ PlayersReset(model)
              /\ ActivePlayers(model) = {1}
              /\ model.TotalGameTime = 0

\* the end of that session with 2 players and the phases A, B, C
C17_Witness ==
    /\ Len(model.Players) = 2
    /\ model.Phases = <<"A", "B", "C">>
    /\ reduced = Append(OpeningAndTicks(5), EndGameConfirmMsg(TRUE))

\* ------------------------------------------- further claims on the run loop
\* C18: once done is closed, the ticker goroutine eventually returns and the
\* consumer loop eventually exits, in every interleaving, also when the ticker
\* is posting a Tick while the consumer loop exits.
C18_ShutdownStops == done ~> (tk = "exit" /\ cs.pc = "exit")

\* C19: done is closed at most once: no path executes a close of done when
\* it is already closed (which would panic).
C19_ClosedAtMostOnce == ui.pc # "panic"

\* main has closed done, and the ticker and the consumer loop have returned
C19_Witness ==
    /\ done
    /\ ui.pc = "closed"
    /\ tk = "exit"
    /\ cs.pc = "exit"

\* --------------------------------------------------- claims on the logger
\* the caller of SendLogEntry takes the step of its select
SubmitStep ==
    /\ logger.snd.pc = "select"
    /\ logger'.snd # logger.snd

\* the call returns, and the entry is dropped by a full buffer and appended
\* to any other
SubmitOutcome ==
    LET buf == logger.logChannel.buf
    IN /\ logger'.snd.pc = "idle"
       /\ logger'.logChannel.buf =
            IF Len(buf) >= LogCapacity
                THEN buf
                ELSE Append(buf, LogEntry(logger.snd.sent + 1))

\* the caller of SendLogEntry waits for logMutex while Cleanup holds it in
\* logWg.Wait(), that is until the writer goroutine has written every entry
SubmitWaitsForDrain ==
    /\ logger.snd.pc = "init"
    /\ logger.main = "wait"

\* C20: SendLogEntry returns without blocking in every state: a full buffer
\* (LogCapacity entries) is left unchanged and the entry is discarded, any
\* other buffer gets the entry appended, and the caller never waits for the
\* writer goroutine or for file I/O.
C20_SubmitNeverBlocks ==
    /\ [](~SubmitWaitsForDrain)
    /\ [][SubmitStep => SubmitOutcome]_vars

\* the entries 1..n in the order of their submission
Submitted(n) == [i \in 1..n |-> LogEntry(i)]

\* the entries the logger holds or has written: those in the buffer, the one
\* the writer goroutine has received and not yet written, and the data rows
Kept ==
    {logger.logChannel.buf[i].Message : i \in 1..Len(logger.logChannel.buf)}
        \cup (IF logger.drain.pc = "write" THEN {logger.drain.entry.Message} ELSE {})
        \cup {logger.file.rows[i].Message :
                 i \in {j \in 1..Len(logger.file.rows) : ~logger.file.rows[j].header}}

\* the submitted entries that are nowhere: dropped by SendLogEntry
Dropped == (1..logger.snd.sent) \ Kept

\* the caller of SendLogEntry is between two calls
SubmitsReturned ==
    /\ logger.snd.pc = "idle"
    /\ ~logger.panicked

\* the writer goroutine has received no entry: nothing written, nothing in hand
NothingDrained ==
    /\ logger.file.rows = << >>
    /\ logger.drain.pc # "write"

Trail(entries) == <<HeaderRow>> \o [i \in 1..Len(entries) |-> DataRow(entries[i])]

\* Cleanup is about to return: logWg.Wait() has returned
CleanupReturns == logger.main = "unlock"

DrainLive == logger.drain.pc \in {"range", "write"}

\* logChannel is a channel that takes entries
BufferOpen == logger.logChannel.made /\ ~logger.logChannel.closed

\* C23: Initialise is idempotent and safe under concurrent callers: called on
\* an initialised logger it changes nothing, and at no time is there more than
\* one buffer or more than one writer goroutine (whenever a call of Initialise
\* makes a buffer and a goroutine, the buffer before is closed and empty and
\* its goroutine has returned).
C23_InitialiseIdempotent ==
    /\ logger.logInitialized => Initialise(logger) = logger
    /\ logger.logWg <= 1
    /\ DrainLive <=> logger.logWg = 1
    /\ BufferOpen => logger.logInitialized
    /\ (~logger.logInitialized /\ ~logger.logMutex) =>
          /\ ~BufferOpen
          /\ logger.logChannel.buf = << >>
          /\ ~DrainLive

\* a caller of SendLogEntry that found the logger uninitialised is about to
\* call Initialise on the logger another caller has initialised since, after
\* the entries of the cycle before have been written
C23_Witness ==
    /\ logger.snd.pc = "init"
    /\ logger.logInitialized
    /\ ~logger.logMutex
    /\ logger.file.rows # << >>
    /\ DrainLive

\* the data rows of logs.csv, in the order of the file
DataRows == SelectSeq(logger.file.rows, LAMBDA row : ~row.header)

\* logs.csv is empty, or its first row is the only header row and its data
\* rows are entries in the order of their submission, none of them twice
IsTrail ==
    \/ logger.file.rows = << >>
    \/ /\ Head(logger.file.rows) = HeaderRow
       /\ \A i \in 2..Len(logger.file.rows) :
             /\ ~logger.file.rows[i].header
             /\ logger.file.rows[i - 1].Message < logger.file.rows[i].Message

\* Initialise on l makes the channel after l's: open, empty, and drained by a
\* new writer goroutine
StartsFreshCycle(l) ==
    LET fresh == Initialise(l)
    IN /\ fresh.logInitialized
       /\ fresh.logChannel = [id |-> l.logChannel.id + 1, made |-> TRUE,
                              closed |-> FALSE, buf |-> << >>]
       /\ fresh.drain.pc = "range"
       /\ fresh.logWg = 1

\* C24: the logger is reusable across init/cleanup cycles: when Cleanup
\* returns the logger is not initialised and its buffer is closed (and
\* flushed, its writer goroutine gone); an Initialise after it makes a fresh
\* open buffer and a new writer goroutine; and in every cycle an entry
\* submitted to the open buffer is accepted as in the first (dropped only by
\* a full buffer) and written once, after the rows before it.
C24_ReusableAcrossCycles ==
    /\ [](CleanupReturns =>
            /\ ~logger.logInitialized
            /\ logger.logChannel.closed
            /\ logger.logChannel.buf = << >>
            /\ logger.drain.pc = "exit")
    /\ []((~logger.logInitialized /\ ~logger.logMutex) => StartsFreshCycle(logger))
    /\ [](IsTrail)
    /\ []((CleanupReturns /\ logger.snd.sent <= LogCapacity) =>
            Len(DataRows) = logger.snd.sent)
    /\ [][(SubmitStep /\ BufferOpen) => SubmitOutcome]_vars

\* the writer goroutine of the second channel has received an entry accepted
\* by that channel, and writes it after the rows of the first cycle
C24_Witness ==
    /\ logger.logChannel.id = 2
    /\ BufferOpen
    /\ logger.drain.pc = "write"
    /\ logger.file.rows # << >>
    /\ logger.drain.entry.Message = Len(DataRows) + 1

\* C26: in every state the number of data rows written to logs.csv is at most
\* the number of entries submitted so far, every data row is a submitted
\* entry, and no entry is written more than once.
C26_RowsAtMostSubmitted ==
    LET written == DataRows
    IN /\ Len(written) <= logger.snd.sent
       /\ \A i \in 1..Len(written) : written[i].Message \in 1..logger.snd.sent
       /\ \A i \in 2..Len(written) : written[i - 1].Message < written[i].Message

\* entries written, fewer than submitted: one dropped by the full buffer
C26_Witness ==
    /\ Len(DataRows) = LogCapacity
    /\ logger.snd.sent = MaxSubmits
    /\ Dropped # {}
    /\ logger.logChannel.buf = << >>
    /\ logger.drain.pc # "write"

\* ------------------------------------- claims on the logger: failing writes
\* C25: a panic while an entry is written is recovered and the writer
\* goroutine goes on: an open buffer always has its writer goroutine, and the
\* goroutine returns only from an empty buffer, so that the entries buffered
\* or submitted after the panic are written.
C25_PanicKeepsDraining ==
    /\ BufferOpen => DrainLive
    /\ logger.drain.pc = "exit" => logger.logChannel.buf = << >>

\* ------------------------------------------------------ claims on options
\* the messages of the options screen, with the counts and indexes it can send
\* and those outside the ranges of the options
OptionMessages ==
    {SetPlayerCountMsg(c) : c \in (-1)..MaxCount}
        \cup {SetPlayerNameMsg(i, name) : i \in (-1)..(MaxCount + 1), name \in Names}
        \cup {SetEnableLogMsg(v) : v \in BOOLEAN}

\* C27: while Options.LoggingEnabled is false, no entry the reducer produces
\* is submitted to the log channel (the entries are only appended to the
\* players' ActionLogs).
C27_NoSubmitWhileDisabled ==
    ~model.Options.LoggingEnabled =>
        \A m \in Messages \cup OptionMessages : Update(m, model).sent = << >>

\* a nil message, and a message of a type Update has no case for
UnhandledMessages == {NoMsg, ShowModalMsg("EndGameConfirm")}

\* Update(m, model) returns the model unchanged and noCommand, writes nothing
\* through the model it was given, logs nothing and does not panic
IsNoOp(m) ==
    LET r == Update(m, model)
    IN /\ ~r.panicked
       /\ r.model = model
       /\ r.input = model
       /\ r.cmd = noCommand
       /\ r.sent = << >>

\* C28: Update with a nil message, or with a message of a type it does not
\* recognise, returns the input state unchanged and no follow-up message, and
\* does not panic, in every state.
C28_UnhandledIsNoOp == \A m \in UnhandledMessages : IsNoOp(m)

\* a paused game with a switched turn, in which Update is given a nil message
C28_Witness ==
    /\ model.GameStatus = gamePaused
    /\ model.TotalGameTime > 0
    /\ \E i \in PlayerIds(model) : model.Players[i].TurnCount > 0
    /\ Update(NoMsg, model).model = model

\* the messages C29 is about: a player count <= 0, and a player name for an
\* index below 0 or from len(Options.PlayerNames) on
InvalidOptionMessages ==
    {SetPlayerCountMsg(c) : c \in (-1)..0}
        \cup {SetPlayerNameMsg(i, name) :
                 i \in {-1} \cup (Len(model.Options.PlayerNames)..(MaxCount + 1)),
                 name \in Names}

\* C29: SetPlayerCount with a count <= 0, and SetPlayerName with an index < 0
\* or >= the number of player names, return the state unchanged and raise no
\* error, in every state.
C29_InvalidOptionsIgnored == \A m \in InvalidOptionMessages : IsNoOp(m)

\* a running game whose player count and names have been set: a third name
\* has been added and written, and the index after it is refused
C29_Witness ==
    /\ model.GameStarted
    /\ model.Options.PlayerCount = 3
    /\ Len(model.Options.PlayerNames) = 3
    /\ model.Options.PlayerNames[3] \in Names
    /\ Update(SetPlayerNameMsg(3, "Ann"), model).model = model
    /\ Update(SetPlayerCountMsg(0), model).model = model

\* C30: the ruleset setter validates its input like the other option
\* setters: SetRuleset with an index outside [0, len(Options.Rules)) raises no
\* error and leaves the state unchanged.
C30_RulesetIndexValidated ==
    \A i \in {-1, Len(Rules)} : IsNoOp(SetRulesetMsg(i))

\* ------------------------------------------------- claims on the key presses
\* C31: in every state a KeyPress with rune 'q' returns a Command that yields
\* a ShowModal message of type ExitConfirm: quitting is asked for through a
\* confirmation dialog.
C31_QuitAsksConfirmation ==
    Update(KeyPressMsg("KeyRune", "q"), model).cmd = ShowModalMsg("ExitConfirm")

\* ------------------------------------------- claims on turns and screens
\* C32: SwitchTurns inverts IsTurn of every player; a player that becomes
\* active has its TurnCount increased by one and its CurrentPhase set to 0; a
\* player that loses the turn keeps both; no TimeElapsed changes; and
\* CurrentScreen is main afterwards.
C32_SwitchTurns ==
    LET after == Update(SwitchTurnsMsg, model).model
    IN /\ Len(after.Players) = Len(model.Players)
       /\ after.CurrentScreen = "main"
       /\ \A i \in PlayerIds(model) :
             LET old == model.Players[i]
                 new == after.Players[i]
             IN /\ new.IsTurn = ~old.IsTurn
                /\ new.TimeElapsed = old.TimeElapsed
                /\ IF new.IsTurn
                      THEN new.TurnCount = old.TurnCount + 1 /\ new.CurrentPhase = 0
                      ELSE new.TurnCount = old.TurnCount
                           /\ new.CurrentPhase = old.CurrentPhase

\* away from the main screen, with clocks that have run, a player in a later
\* phase about to lose the turn and one in a later phase about to get it
C32_Witness ==
    /\ model.CurrentScreen # "main"
    /\ \E i, j \in PlayerIds(model) :
          /\ model.Players[i].IsTurn
          /\ model.Players[i].CurrentPhase > 0
          /\ ~model.Players[j].IsTurn
          /\ model.Players[j].CurrentPhase > 0
          /\ model.Players[j].TimeElapsed > 0
          /\ Update(SwitchTurnsMsg, model).model.Players[j].CurrentPhase = 0

\* --------------------------------------------------- claims on Commands
\* the messages the goroutine of a Command handles on the view itself
ViewMessages == {"ShowModalMsg", "RestoreMainUIMsg"}

\* the consumer loop starts one goroutine for the Command Update returned, and
\* nothing else starts one
SpawnedOnce ==
    /\ (cs.pc = "spawn" /\ cs'.pc # "spawn") =>
          cmds' = cmds (+) SetToBag({[pc |-> "run", msg |-> cs.res.cmd]})
    /\ BagCardinality(cmds') > BagCardinality(cmds) => cs.pc = "spawn"

\* a goroutine that has run its Command posts a message that is not in
\* `direct` on msgChan, queues the change of the view for one that is, and
\* returns after a nil; a goroutine sends one message: msgChan takes it and
\* the goroutine is gone
ResultHandled(direct) ==
    LET Leaves(g) == CopiesIn(g, cmds') < CopiesIn(g, cmds)
        Arrives(h) == CopiesIn(h, cmds') = CopiesIn(h, cmds) + 1
        Returns == BagCardinality(cmds') = BagCardinality(cmds) - 1
    IN \A g \in BagToSet(cmds) :
          /\ (g.pc = "run" /\ Leaves(g)) =>
                IF g.msg = NoMsg THEN Returns
                ELSE IF g.msg.type \in direct
                    THEN /\ Arrives([g EXCEPT !.pc = "queued"])
                         /\ updates' = Append(updates, [by |-> "command", f |-> g.msg.type])
                ELSE Arrives([g EXCEPT !.pc = "send"])
          /\ (g.pc = "send" /\ Leaves(g)) =>
                /\ accepted' = Append(accepted, g.msg)
                /\ Returns

\* what msgChan accepted is passed to Update, in order
AcceptedIsReduced ==
    /\ Len(reduced) <= Len(accepted)
    /\ Len(accepted) <= Len(reduced) + 1
    /\ reduced = SubSeq(accepted, 1, Len(reduced))

Reductions(type) == Cardinality({i \in 1..Len(reduced) : reduced[i].type = type})

\* C34: after Update has handled an EndGameConfirmMsg, with either answer, a
\* ShowMainScreenMsg is eventually reduced and the main UI is eventually
\* restored (modal closed, CurrentScreen main), provided the consumer loop
\* keeps running.
C34_ConfirmRestoresMain ==
    [](~done /\ cs.pc # "exit") =>
        ((Reductions("EndGameConfirmMsg") > Reductions("ShowMainScreenMsg"))
            ~> (/\ Reductions("EndGameConfirmMsg") = Reductions("ShowMainScreenMsg")
                /\ ~modal
                /\ model.CurrentScreen = "main"))

\* the message each bound rune stands for
KeyBindings ==
    {<<"o", ShowOptionsMsg>>, <<"O", ShowOptionsMsg>>,
     <<"a", ShowAboutMsg>>, <<"A", ShowAboutMsg>>,
     <<"s", StartGameMsg>>, <<"S", StartGameMsg>>,
     <<"p", NextPhaseMsg>>, <<"P", NextPhaseMsg>>,
     <<"b", PrevPhaseMsg>>, <<"B", PrevPhaseMsg>>,
     <<" ", SwitchTurnsMsg>>}

\* the key events the switch of handleKeyPress has no case for
UnboundKeys ==
    {k \in KeyPresses :
        k.Key # "KeyRune" \/ k.Rune \notin {"o", "O", "a", "A", "s", "S", "e", "E",
                                            "p", "P", "b", "B", "q", "Q", " "}}

\* C35: a KeyPress with rune o, a, s, p, b or space, in either case, returns
\* exactly the state and the follow-up that ShowOptions, ShowAbout, StartGame,
\* NextPhase, PrevPhase and SwitchTurns return; rune e leaves the state
\* unchanged and yields the request for the end-game confirmation when the
\* game is started and nothing otherwise; a key outside o/a/s/e/p/b/q/space
\* leaves the state unchanged and yields no follow-up.
C35_KeysAreShortcuts ==
    /\ \A b \in KeyBindings :
          Update(KeyPressMsg("KeyRune", b[1]), model) = Update(b[2], model)
    /\ \A r \in {"e", "E"} :
          LET res == Update(KeyPressMsg("KeyRune", r), model)
          IN IF model.GameStarted
             THEN /\ ~res.panicked
                  /\ res.model = model
                  /\ res.input = model
                  /\ res.sent = << >>
                  /\ res.cmd = ShowEndGameConfirmMsg
             ELSE IsNoOp(KeyPressMsg("KeyRune", r))
    /\ \A k \in UnboundKeys : IsNoOp(k)

\* a started game in which the P key moves the phase and the space key
\* passes the turn
C35_Witness ==
    /\ model.GameStarted
    /\ Update(KeyPressMsg("KeyRune", "P"), model).model # model
    /\ Update(KeyPressMsg("KeyRune", " "), model).model # model
    /\ Update(KeyPressMsg("KeyRune", "E"), model).cmd = ShowEndGameConfirmMsg

\* Update(m, model) returns the model with CurrentScreen = screen and nothing
\* else changed, the Command cmd, and leaves the model it was given alone
OnlyScreen(m, screen, cmd) ==
    LET r == Update(m, model)
    IN /\ ~r.panicked
       /\ r.model = [model EXCEPT !.CurrentScreen = screen]
       /\ r.input = model
       /\ r.cmd = cmd
       /\ r.sent = << >>

\* C36: ShowOptions and ShowAbout are toggles: each shows its own screen
\* unless that screen is the current one, and then shows main, so that two of
\* them from main are back on main; ShowMainScreen sets CurrentScreen to main
\* from every state and returns a Command yielding the restore-main-UI
\* message; none of the three changes a player, GameStatus or TotalGameTime.
C36_ScreenToggles ==
    /\ OnlyScreen(ShowOptionsMsg,
                  IF model.CurrentScreen = "options" THEN "main" ELSE "options", noCommand)
    /\ OnlyScreen(ShowAboutMsg,
                  IF model.CurrentScreen = "about" THEN "main" ELSE "about", noCommand)
    /\ OnlyScreen(ShowMainScreenMsg, "main", RestoreMainUIMsg)
    /\ model.CurrentScreen = "main" =>
          \A m \in {ShowOptionsMsg, ShowAboutMsg} :
              Update(m, Update(m, model).model).model = model

\* the options screen during a game that has run for some time
C36_Witness ==
    /\ model.CurrentScreen = "options"
    /\ model.GameStarted
    /\ model.TotalGameTime > 0
    /\ Update(ShowOptionsMsg, model).model.CurrentScreen = "main"
    /\ Update(ShowAboutMsg, model).model.CurrentScreen = "about"

\* ------------------------------------------ claims on submit and Cleanup
\* C37: no log entry is ever sent on a closed log buffer: whatever the
\* interleaving of a submit with Cleanup, the send of SendLogEntry never
\* panics.
C37_NoSendOnClosed ==
    ~(logger.snd.pc = "panic" /\ logger.logChannel.closed) /\ ~logger.panicked

\* --------------------------------------------- claims on the phase reads
\* the messages whose handlers read model.Phases or the ruleset table, with
\* the indexes the ruleset dropdown sends
PhaseReaders ==
    {NextPhaseMsg, PrevPhaseMsg, SwitchTurnsMsg}
        \cup {SetRulesetMsg(i) : i \in 0..(Len(Rules) - 1)}

\* C38: Update never reads Phases or the ruleset table out of bounds, also
\* after SetRuleset in a game whose players have CurrentPhase > 0: NextPhase,
\* PrevPhase, SwitchTurns and the construction of their log entries complete
\* without an index out of range.
C38_NoIndexOutOfRange == \A m \in PhaseReaders : ~Update(m, model).panicked
\* --------------------------------------- claims on the end of a Command
\* C39: every goroutine started for a Command eventually returns, also when
\* done is closed and the consumer loop returns between the start of the
\* Command and the posting of its message: none stays blocked on msgChan.
C39_CommandsTerminate == <>[](cmds = EmptyBag)
\* ------------------------------------------- claims on the game status
\* C40: in every reachable state GameStarted is true exactly when GameStatus
\* is "Game In Progress" or "Game Paused", and TotalGameTime is zero whenever
\* GameStatus is "Game Not Started".
C40_StatusConsistent ==
    /\ model.GameStatus \in {gameNotStarted, gameInProgress, gamePaused}
    /\ model.GameStarted <=> model.GameStatus \in {gameInProgress, gamePaused}
    /\ model.GameStatus = gameNotStarted => model.TotalGameTime = 0

\* a paused game that has run for some time, which EndGame ends
C40_Witness ==
    /\ model.GameStarted
    /\ model.GameStatus = gamePaused
    /\ model.TotalGameTime > 0
    /\ LET ended == Update(EndGameMsg, model).model
       IN /\ ~ended.GameStarted
          /\ ended.GameStatus = gameNotStarted
          /\ ended.TotalGameTime = 0
====
